---- MODULE Spec2Model ----
(***************************************************************************)
(* A model of settrie.py: the SetTrie container of sets and the SetTrieMap *)
(* mapping with sets as keys, both stored as a trie whose nodes keep their *)
(* children in a sorted list.                                              *)
(*                                                                         *)
(* A node object is identified by the sequence of data items on the way    *)
(* from the root to it; the root is the empty sequence.  The trie is a     *)
(* function from the nodes that exist to their fields.  An iterable passed *)
(* to an operation is the sequence of the items it yields; sorted() really *)
(* sorts it.  Python's 0-based list indices are kept (setarr[idx] is       *)
(* written setarr[idx + 1]).                                               *)
(***************************************************************************)
EXTENDS Integers, Sequences, FiniteSets, TLC

\* ---------------------------------------------------------------- bounds
\* The set elements are the integers 1..MaxElem.
MaxElem == 2
\* At most MaxSets distinct sets are added to (keys assigned in) a container.
MaxSets == 3
\* The longest iterable with repeated items that is passed to an operation.
MaxLen == 2

Elem == 1..MaxElem

\* Python's None, as a value and as the data of the root node (the set
\* elements are positive, so 0 is not one of them).
None == "None"
NoData == 0

\* The values assigned in a SetTrieMap, and the defaults passed to get().
Values == {"v1", "v2"}
Defaults == {None, "dflt"}

\* The mode arguments of the SetTrieMap iterators.
Modes == {None, "keys", "values"}

RECURSIVE SeqsUpTo(_, _)
SeqsUpTo(S, n) ==
  IF n = 0 THEN {<<>>}
  ELSE LET shorter == SeqsUpTo(S, n - 1)
       IN shorter \cup {Append(s, x) : s \in shorter, x \in S}

\* set(iterable): the distinct items of an iterable.
set(s) == {s[i] : i \in 1..Len(s)}

\* Iterables with possibly repeated items, and those that iterate over a set.
IterArgs == SeqsUpTo(Elem, MaxLen)
SetArgs == {s \in SeqsUpTo(Elem, MaxElem) : Cardinality(set(s)) = Len(s)}

\* ------------------------------------------------------------- sorted()
\* Insert x into the ascending sequence s after the items <= x.
RECURSIVE InsertSorted(_, _)
InsertSorted(s, x) ==
  IF s = <<>> THEN <<x>>
  ELSE IF x < Head(s) THEN <<x>> \o s
  ELSE <<Head(s)>> \o InsertSorted(Tail(s), x)

\* sorted(iterable): the items in ascending order, repeated items kept.
RECURSIVE sorted(_)
\* A sorted() that leaves the items in the order of the iterable.
M_sorted(s) == s

sorted(s) ==
  IF s = <<>> THEN <<>>
  ELSE InsertSorted(sorted(SubSeq(s, 1, Len(s) - 1)), s[Len(s)])

\* ------------------------------------------------------------- the nodes
root == <<>>

\* SetTrie.Node(data) / SetTrieMap.Node(data): a new node without children.
Node(data) ==
  [data |-> data, children |-> <<>>, flag_last |-> FALSE, value |-> None]

\* The trie of a freshly constructed container: the root node alone.
EmptyTrie == [n \in {root} |-> Node(NoData)]

\* SortedList.index(Node(data)): the 1-based position of the first child
\* that compares equal, 0 for ValueError.  t is the trie, l the children.
\* An index() that finds no child.
M_SortedListIndex(t, l, data) == 0

SortedListIndex(t, l, data) ==
  LET pos == 1 + Cardinality({i \in 1..Len(l) : t[l[i]].data < data})
  IN IF pos <= Len(l) /\ t[l[pos]].data = data THEN pos ELSE 0

\* SortedList.add(node): the children with the node of key data, whose
\* identity is id, put after the children that are not greater.
\* A children list that appends the new node instead of sorting it in.
M_SortedListAdd(t, l, id, data) == Append(l, id)

SortedListAdd(t, l, id, data) ==
  LET pos == Cardinality({i \in 1..Len(l) : t[l[i]].data <= data})
  IN SubSeq(l, 1, pos) \o <<id>> \o SubSeq(l, pos + 1, Len(l))

\* ------------------------------------------------------------- SetTrie
\* SetTrie._add(node, it): it is what the iterator has left to yield.
\* The result is the trie after the call.
RECURSIVE SetTrie__add(_, _, _)
\* SetTrie._add that adds a child without looking for an existing one.
M_SetTrie__add(t, node, it) ==
  IF it = <<>> THEN [t EXCEPT ![node].flag_last = TRUE]
  ELSE
    LET data == Head(it)
        nextnode == Append(node, data)
        t1 == [n \in DOMAIN t \cup {nextnode} |->
                 IF n \in DOMAIN t THEN t[n] ELSE Node(data)]
        t2 == [t1 EXCEPT ![node].children =
                 SortedListAdd(t1, @, nextnode, data)]
    IN SetTrie__add(t2, nextnode, Tail(it))

SetTrie__add(t, node, it) ==
  IF it = <<>> THEN [t EXCEPT ![node].flag_last = TRUE]
  ELSE
    LET data == Head(it)
        c == SortedListIndex(t, t[node].children, data)
    IN IF c # 0
       THEN SetTrie__add(t, t[node].children[c], Tail(it))
       ELSE
         LET nextnode == Append(node, data)
             t1 == [n \in DOMAIN t \cup {nextnode} |->
                      IF n = nextnode THEN Node(data) ELSE t[n]]
             t2 == [t1 EXCEPT ![node].children =
                      SortedListAdd(t1, @, nextnode, data)]
         IN SetTrie__add(t2, nextnode, Tail(it))

\* SetTrie.add(aset)
\* An add that leaves the node of the last element unmarked.
M_SetTrie_add(t, aset) ==
  [SetTrie__add(t, root, sorted(aset)) EXCEPT ![sorted(aset)].flag_last = FALSE]

SetTrie_add(t, aset) == SetTrie__add(t, root, sorted(aset))

\* SetTrie._contains(node, it)
RECURSIVE SetTrie__contains(_, _, _)
\* SetTrie._contains that takes every node it reaches for the end of a set.
M_SetTrie__contains(t, node, it) ==
  IF it = <<>> THEN TRUE
  ELSE
    LET c == SortedListIndex(t, t[node].children, Head(it))
    IN IF c # 0
       THEN SetTrie__contains(t, t[node].children[c], Tail(it))
       ELSE FALSE

SetTrie__contains(t, node, it) ==
  IF it = <<>> THEN t[node].flag_last
  ELSE
    LET c == SortedListIndex(t, t[node].children, Head(it))
    IN IF c # 0
       THEN SetTrie__contains(t, t[node].children[c], Tail(it))
       ELSE FALSE

\* SetTrie.contains(aset)
SetTrie_contains(t, aset) == SetTrie__contains(t, root, sorted(aset))

\* SetTrie._hassuperset(node, setarr, idx); SetTrie__hassuperset_for is its
\* loop over node.children from the c-th child on.
RECURSIVE SetTrie__hassuperset(_, _, _, _)
RECURSIVE SetTrie__hassuperset_for(_, _, _, _, _)
\* SetTrie._hassuperset that answers True with the search set consumed only
\* at a terminal node.
M_SetTrie__hassuperset(t, node, setarr, idx) ==
  IF idx > Len(setarr) - 1 THEN t[node].flag_last
  ELSE SetTrie__hassuperset_for(t, t[node].children, 1, setarr, idx)

SetTrie__hassuperset(t, node, setarr, idx) ==
  IF idx > Len(setarr) - 1 THEN TRUE
  ELSE SetTrie__hassuperset_for(t, t[node].children, 1, setarr, idx)

SetTrie__hassuperset_for(t, children, c, setarr, idx) ==
  IF c > Len(children) THEN FALSE
  ELSE
    LET child == children[c]
    IN IF t[child].data > setarr[idx + 1] THEN FALSE
       ELSE
         LET found ==
               IF t[child].data = setarr[idx + 1]
               THEN SetTrie__hassuperset(t, child, setarr, idx + 1)
               ELSE SetTrie__hassuperset(t, child, setarr, idx)
         IN IF found THEN TRUE
            ELSE SetTrie__hassuperset_for(t, children, c + 1, setarr, idx)

\* SetTrie.hassuperset(aset)
SetTrie_hassuperset(t, aset) == SetTrie__hassuperset(t, root, sorted(aset), 0)

\* path.append(node.data) unless the node is the root
PathAppend(t, node, path) ==
  IF t[node].data # NoData THEN Append(path, t[node].data) ELSE path

\* SetTrie._itersupersets(node, setarr, idx, path): the sequence of the sets
\* the generator yields.  SetTrie__itersupersets_for is either of its loops
\* over node.children, from the c-th child on.
RECURSIVE SetTrie__itersupersets(_, _, _, _, _)
RECURSIVE SetTrie__itersupersets_for(_, _, _, _, _, _)
\* SetTrie._itersupersets yielding at every terminal node it visits, whether
\* or not the whole search set has been found.
M_SetTrie__itersupersets(t, node, setarr, idx, path) ==
  LET path1 == PathAppend(t, node, path)
  IN (IF t[node].flag_last THEN <<set(path1)>> ELSE <<>>)
     \o SetTrie__itersupersets_for(t, t[node].children, 1, setarr, idx, path1)

SetTrie__itersupersets(t, node, setarr, idx, path) ==
  LET path1 == PathAppend(t, node, path)
  IN (IF t[node].flag_last /\ idx > Len(setarr) - 1
      THEN <<set(path1)>> ELSE <<>>)
     \o SetTrie__itersupersets_for(t, t[node].children, 1, setarr, idx, path1)

SetTrie__itersupersets_for(t, children, c, setarr, idx, path) ==
  IF c > Len(children) THEN <<>>
  ELSE
    LET child == children[c]
    IN IF idx <= Len(setarr) - 1
       THEN IF t[child].data > setarr[idx + 1] THEN <<>>
            ELSE (IF t[child].data = setarr[idx + 1]
                  THEN SetTrie__itersupersets(t, child, setarr, idx + 1, path)
                  ELSE SetTrie__itersupersets(t, child, setarr, idx, path))
                 \o SetTrie__itersupersets_for(t, children, c + 1, setarr,
                                               idx, path)
       ELSE SetTrie__itersupersets(t, child, setarr, idx, path)
            \o SetTrie__itersupersets_for(t, children, c + 1, setarr, idx,
                                          path)

\* SetTrie.itersupersets(aset), and SetTrie.supersets(aset), its list
SetTrie_itersupersets(t, aset) ==
  SetTrie__itersupersets(t, root, sorted(aset), 0, <<>>)
SetTrie_supersets(t, aset) == SetTrie_itersupersets(t, aset)

\* SetTrie._hassubset(node, setarr, idx)
RECURSIVE SetTrie__hassubset(_, _, _, _)
\* SetTrie._hassubset that never skips an element of the search set.
M_SetTrie__hassubset(t, node, setarr, idx) ==
  IF t[node].flag_last THEN TRUE
  ELSE IF idx > Len(setarr) - 1 THEN FALSE
  ELSE
    LET c == SortedListIndex(t, t[node].children, setarr[idx + 1])
    IN IF c # 0
       THEN SetTrie__hassubset(t, t[node].children[c], setarr, idx + 1)
       ELSE FALSE

SetTrie__hassubset(t, node, setarr, idx) ==
  IF t[node].flag_last THEN TRUE
  ELSE IF idx > Len(setarr) - 1 THEN FALSE
  ELSE
    LET c == SortedListIndex(t, t[node].children, setarr[idx + 1])
        found == IF c # 0
                 THEN SetTrie__hassubset(t, t[node].children[c], setarr,
                                         idx + 1)
                 ELSE FALSE
    IN IF ~found THEN SetTrie__hassubset(t, node, setarr, idx + 1)
       ELSE TRUE

\* SetTrie.hassubset(aset)
SetTrie_hassubset(t, aset) == SetTrie__hassubset(t, root, sorted(aset), 0)

\* SetTrie._itersubsets(node, setarr, idx, path): the sequence of the sets
\* the generator yields.
\* SetTrie__itersubsets_for is its loop over node.children from the c-th
\* child on; idx is the loop's variable, which the loop body changes.
\* SetTrie__itersubsets_while is the while loop that advances idx in the
\* search set for one child: what it yields, and idx when it is left.
RECURSIVE SetTrie__itersubsets(_, _, _, _, _)
RECURSIVE SetTrie__itersubsets_for(_, _, _, _, _, _)
RECURSIVE SetTrie__itersubsets_while(_, _, _, _, _)
\* SetTrie._itersubsets that stops at an exhausted search set before it
\* looks at the node's flag.
M_SetTrie__itersubsets(t, node, setarr, idx, path) ==
  LET path1 == PathAppend(t, node, path)
  IN IF idx > Len(setarr) - 1 THEN <<>>
     ELSE (IF t[node].flag_last THEN <<set(path1)>> ELSE <<>>)
          \o SetTrie__itersubsets_for(t, t[node].children, 1, setarr, idx,
                                      path1)

SetTrie__itersubsets(t, node, setarr, idx, path) ==
  LET path1 == PathAppend(t, node, path)
  IN (IF t[node].flag_last THEN <<set(path1)>> ELSE <<>>)
     \o SetTrie__itersubsets_for(t, t[node].children, 1, setarr, idx, path1)

\* The while loop leaving the search set at the first element that is not
\* smaller than the child, the child's own key included.
M_SetTrie__itersubsets_while(t, child, setarr, idx, path) ==
  IF idx < Len(setarr) /\ t[child].data > setarr[idx + 1]
  THEN SetTrie__itersubsets_while(t, child, setarr, idx + 1, path)
  ELSE [out |-> <<>>, idx |-> idx]

SetTrie__itersubsets_while(t, child, setarr, idx, path) ==
  IF idx < Len(setarr) /\ t[child].data >= setarr[idx + 1]
  THEN IF t[child].data = setarr[idx + 1]
       THEN [out |-> SetTrie__itersubsets(t, child, setarr, idx, path),
             idx |-> idx]
       ELSE SetTrie__itersubsets_while(t, child, setarr, idx + 1, path)
  ELSE [out |-> <<>>, idx |-> idx]

\* The loop over the children descending into every child, whether or not
\* its key is the current element of the search set.
M_SetTrie__itersubsets_for(t, children, c, setarr, idx, path) ==
  IF c > Len(children) THEN <<>>
  ELSE IF idx > Len(setarr) - 1 THEN <<>>
  ELSE SetTrie__itersubsets(t, children[c], setarr, idx + 1, path)
       \o SetTrie__itersubsets_for(t, children, c + 1, setarr, idx, path)

SetTrie__itersubsets_for(t, children, c, setarr, idx, path) ==
  IF c > Len(children) THEN <<>>
  ELSE IF idx > Len(setarr) - 1 THEN <<>>
  ELSE
    LET child == children[c]
    IN IF t[child].data = setarr[idx + 1]
       THEN SetTrie__itersubsets(t, child, setarr, idx + 1, path)
            \o SetTrie__itersubsets_for(t, children, c + 1, setarr, idx, path)
       ELSE
         LET w == SetTrie__itersubsets_while(t, child, setarr, idx + 1, path)
         IN w.out
            \o SetTrie__itersubsets_for(t, children, c + 1, setarr, w.idx,
                                        path)

\* SetTrie.itersubsets(aset), and SetTrie.subsets(aset), its list
SetTrie_itersubsets(t, aset) ==
  SetTrie__itersubsets(t, root, sorted(aset), 0, <<>>)
SetTrie_subsets(t, aset) == SetTrie_itersubsets(t, aset)

\* SetTrie._iter(node, path): the sequence of the sets the generator yields;
\* SetTrie__iter_for is its loop over node.children from the c-th child on.
RECURSIVE SetTrie__iter(_, _, _)
RECURSIVE SetTrie__iter_for(_, _, _, _)
SetTrie__iter(t, node, path) ==
  LET path1 == PathAppend(t, node, path)
  IN (IF t[node].flag_last THEN <<set(path1)>> ELSE <<>>)
     \o SetTrie__iter_for(t, t[node].children, 1, path1)

SetTrie__iter_for(t, children, c, path) ==
  IF c > Len(children) THEN <<>>
  ELSE SetTrie__iter(t, children[c], path)
       \o SetTrie__iter_for(t, children, c + 1, path)

\* SetTrie.__iter__() / SetTrie.iter(), and SetTrie.aslist(), its list
SetTrie_iter(t) == SetTrie__iter(t, root, <<>>)
SetTrie_aslist(t) == SetTrie_iter(t)

\* ---------------------------------------------------------- SetTrieMap
\* SetTrieMap._assign(node, it, val): the trie after the call.
RECURSIVE SetTrieMap__assign(_, _, _, _)
\* SetTrieMap._assign that keeps the value of a key that is already there.
M_SetTrieMap__assign(t, node, it, val) ==
  IF it = <<>>
  THEN IF t[node].flag_last THEN t
       ELSE [t EXCEPT ![node].flag_last = TRUE, ![node].value = val]
  ELSE
    LET data == Head(it)
        c == SortedListIndex(t, t[node].children, data)
    IN IF c # 0
       THEN SetTrieMap__assign(t, t[node].children[c], Tail(it), val)
       ELSE
         LET nextnode == Append(node, data)
             t1 == [n \in DOMAIN t \cup {nextnode} |->
                      IF n = nextnode THEN Node(data) ELSE t[n]]
             t2 == [t1 EXCEPT ![node].children =
                      SortedListAdd(t1, @, nextnode, data)]
         IN SetTrieMap__assign(t2, nextnode, Tail(it), val)

SetTrieMap__assign(t, node, it, val) ==
  IF it = <<>>
  THEN [t EXCEPT ![node].flag_last = TRUE, ![node].value = val]
  ELSE
    LET data == Head(it)
        c == SortedListIndex(t, t[node].children, data)
    IN IF c # 0
       THEN SetTrieMap__assign(t, t[node].children[c], Tail(it), val)
       ELSE
         LET nextnode == Append(node, data)
             t1 == [n \in DOMAIN t \cup {nextnode} |->
                      IF n = nextnode THEN Node(data) ELSE t[n]]
             t2 == [t1 EXCEPT ![node].children =
                      SortedListAdd(t1, @, nextnode, data)]
         IN SetTrieMap__assign(t2, nextnode, Tail(it), val)

\* SetTrieMap.assign(akey, avalue)
SetTrieMap_assign(t, akey, avalue) ==
  SetTrieMap__assign(t, root, sorted(akey), avalue)

\* SetTrieMap._contains(node, it)
RECURSIVE SetTrieMap__contains(_, _, _)
SetTrieMap__contains(t, node, it) ==
  IF it = <<>> THEN t[node].flag_last
  ELSE
    LET c == SortedListIndex(t, t[node].children, Head(it))
    IN IF c # 0
       THEN SetTrieMap__contains(t, t[node].children[c], Tail(it))
       ELSE FALSE

\* SetTrieMap.contains(keyset)
SetTrieMap_contains(t, keyset) == SetTrieMap__contains(t, root, sorted(keyset))

\* SetTrieMap._get(node, it, default)
RECURSIVE SetTrieMap__get(_, _, _, _)

\* SetTrieMap._get that returns node.value without looking at flag_last.
M_SetTrieMap__get(t, node, it, default) ==
  IF it = <<>> THEN t[node].value
  ELSE
    LET c == SortedListIndex(t, t[node].children, Head(it))
    IN IF c # 0
       THEN SetTrieMap__get(t, t[node].children[c], Tail(it), default)
       ELSE default

SetTrieMap__get(t, node, it, default) ==
  IF it = <<>>
  THEN IF t[node].flag_last THEN t[node].value ELSE default
  ELSE
    LET c == SortedListIndex(t, t[node].children, Head(it))
    IN IF c # 0
       THEN SetTrieMap__get(t, t[node].children[c], Tail(it), default)
       ELSE default

\* SetTrieMap.get(keyset, default)
SetTrieMap_get(t, keyset, default) ==
  SetTrieMap__get(t, root, sorted(keyset), default)

\* SetTrieMap._hassuperset(node, setarr, idx) and its loop over the children
RECURSIVE SetTrieMap__hassuperset(_, _, _, _)
RECURSIVE SetTrieMap__hassuperset_for(_, _, _, _, _)
SetTrieMap__hassuperset(t, node, setarr, idx) ==
  IF idx > Len(setarr) - 1 THEN TRUE
  ELSE SetTrieMap__hassuperset_for(t, t[node].children, 1, setarr, idx)

SetTrieMap__hassuperset_for(t, children, c, setarr, idx) ==
  IF c > Len(children) THEN FALSE
  ELSE
    LET child == children[c]
    IN IF t[child].data > setarr[idx + 1] THEN FALSE
       ELSE
         LET found ==
               IF t[child].data = setarr[idx + 1]
               THEN SetTrieMap__hassuperset(t, child, setarr, idx + 1)
               ELSE SetTrieMap__hassuperset(t, child, setarr, idx)
         IN IF found THEN TRUE
            ELSE SetTrieMap__hassuperset_for(t, children, c + 1, setarr, idx)

\* SetTrieMap.hassuperset(aset)
SetTrieMap_hassuperset(t, aset) ==
  SetTrieMap__hassuperset(t, root, sorted(aset), 0)

\* A yield that in mode 'values' gives the value of the root node.
M_MapYield(t, node, path, mode) ==
  IF mode = "keys" THEN <<set(path)>>
  ELSE IF mode = "values" THEN <<t[root].value>>
  ELSE << <<set(path), t[node].value>> >>

\* What the SetTrieMap generators yield at a node whose key set is path,
\* in the given mode.
MapYield(t, node, path, mode) ==
  IF mode = "keys" THEN <<set(path)>>
  ELSE IF mode = "values" THEN <<t[node].value>>
  ELSE << <<set(path), t[node].value>> >>

\* SetTrieMap._itersupersets(node, setarr, idx, path, mode) and its loops
\* over the children.
RECURSIVE SetTrieMap__itersupersets(_, _, _, _, _, _)
RECURSIVE SetTrieMap__itersupersets_for(_, _, _, _, _, _, _)
SetTrieMap__itersupersets(t, node, setarr, idx, path, mode) ==
  LET path1 == PathAppend(t, node, path)
  IN (IF t[node].flag_last /\ idx > Len(setarr) - 1
      THEN MapYield(t, node, path1, mode) ELSE <<>>)
     \o SetTrieMap__itersupersets_for(t, t[node].children, 1, setarr, idx,
                                      path1, mode)

SetTrieMap__itersupersets_for(t, children, c, setarr, idx, path, mode) ==
  IF c > Len(children) THEN <<>>
  ELSE
    LET child == children[c]
    IN IF idx <= Len(setarr) - 1
       THEN IF t[child].data > setarr[idx + 1] THEN <<>>
            ELSE (IF t[child].data = setarr[idx + 1]
                  THEN SetTrieMap__itersupersets(t, child, setarr, idx + 1,
                                                 path, mode)
                  ELSE SetTrieMap__itersupersets(t, child, setarr, idx, path,
                                                 mode))
                 \o SetTrieMap__itersupersets_for(t, children, c + 1, setarr,
                                                  idx, path, mode)
       ELSE SetTrieMap__itersupersets(t, child, setarr, idx, path, mode)
            \o SetTrieMap__itersupersets_for(t, children, c + 1, setarr, idx,
                                             path, mode)

\* SetTrieMap.itersupersets(aset, mode), and SetTrieMap.supersets, its list
SetTrieMap_itersupersets(t, aset, mode) ==
  SetTrieMap__itersupersets(t, root, sorted(aset), 0, <<>>, mode)
SetTrieMap_supersets(t, aset, mode) == SetTrieMap_itersupersets(t, aset, mode)

\* SetTrieMap._hassubset(node, setarr, idx)
RECURSIVE SetTrieMap__hassubset(_, _, _, _)
SetTrieMap__hassubset(t, node, setarr, idx) ==
  IF t[node].flag_last THEN TRUE
  ELSE IF idx > Len(setarr) - 1 THEN FALSE
  ELSE
    LET c == SortedListIndex(t, t[node].children, setarr[idx + 1])
        found == IF c # 0
                 THEN SetTrieMap__hassubset(t, t[node].children[c], setarr,
                                            idx + 1)
                 ELSE FALSE
    IN IF ~found THEN SetTrieMap__hassubset(t, node, setarr, idx + 1)
       ELSE TRUE

\* SetTrieMap.hassubset(aset)
SetTrieMap_hassubset(t, aset) ==
  SetTrieMap__hassubset(t, root, sorted(aset), 0)

\* SetTrieMap._itersubsets(node, setarr, idx, path, mode), its loop over the
\* children and the while loop in it (see SetTrie__itersubsets).
RECURSIVE SetTrieMap__itersubsets(_, _, _, _, _, _)
RECURSIVE SetTrieMap__itersubsets_for(_, _, _, _, _, _, _)
RECURSIVE SetTrieMap__itersubsets_while(_, _, _, _, _, _)
SetTrieMap__itersubsets(t, node, setarr, idx, path, mode) ==
  LET path1 == PathAppend(t, node, path)
  IN (IF t[node].flag_last THEN MapYield(t, node, path1, mode) ELSE <<>>)
     \o SetTrieMap__itersubsets_for(t, t[node].children, 1, setarr, idx,
                                    path1, mode)

SetTrieMap__itersubsets_while(t, child, setarr, idx, path, mode) ==
  IF idx < Len(setarr) /\ t[child].data >= setarr[idx + 1]
  THEN IF t[child].data = setarr[idx + 1]
       THEN [out |-> SetTrieMap__itersubsets(t, child, setarr, idx, path,
                                             mode),
             idx |-> idx]
       ELSE SetTrieMap__itersubsets_while(t, child, setarr, idx + 1, path,
                                          mode)
  ELSE [out |-> <<>>, idx |-> idx]

SetTrieMap__itersubsets_for(t, children, c, setarr, idx, path, mode) ==
  IF c > Len(children) THEN <<>>
  ELSE IF idx > Len(setarr) - 1 THEN <<>>
  ELSE
    LET child == children[c]
    IN IF t[child].data = setarr[idx + 1]
       THEN SetTrieMap__itersubsets(t, child, setarr, idx + 1, path, mode)
            \o SetTrieMap__itersubsets_for(t, children, c + 1, setarr, idx,
                                           path, mode)
       ELSE
         LET w == SetTrieMap__itersubsets_while(t, child, setarr, idx + 1,
                                                path, mode)
         IN w.out
            \o SetTrieMap__itersubsets_for(t, children, c + 1, setarr, w.idx,
                                           path, mode)

\* SetTrieMap.itersubsets(aset, mode), and SetTrieMap.subsets, its list
SetTrieMap_itersubsets(t, aset, mode) ==
  SetTrieMap__itersubsets(t, root, sorted(aset), 0, <<>>, mode)
SetTrieMap_subsets(t, aset, mode) == SetTrieMap_itersubsets(t, aset, mode)

\* SetTrieMap._iter(node, path, mode) and its loop over the children
RECURSIVE SetTrieMap__iter(_, _, _, _)
RECURSIVE SetTrieMap__iter_for(_, _, _, _, _)
SetTrieMap__iter(t, node, path, mode) ==
  LET path1 == PathAppend(t, node, path)
  IN (IF t[node].flag_last THEN MapYield(t, node, path1, mode) ELSE <<>>)
     \o SetTrieMap__iter_for(t, t[node].children, 1, path1, mode)

SetTrieMap__iter_for(t, children, c, path, mode) ==
  IF c > Len(children) THEN <<>>
  ELSE SetTrieMap__iter(t, children[c], path, mode)
       \o SetTrieMap__iter_for(t, children, c + 1, path, mode)

\* SetTrieMap.iter(mode); keys(), values(), items() and aslist() use it.
SetTrieMap_iter(t, mode) == SetTrieMap__iter(t, root, <<>>, mode)
SetTrieMap_keys(t) == SetTrieMap_iter(t, "keys")
SetTrieMap_values(t) == SetTrieMap_iter(t, "values")
SetTrieMap_items(t) == SetTrieMap_iter(t, None)
SetTrieMap_aslist(t) == SetTrieMap_iter(t, None)

\* ------------------------------------------------------- the state machine
\* kind   which class the container was constructed from
\* trie   the nodes of the container, root included
\* store  history: the sets added so far (for a SetTrieMap: the key sets
\*        assigned so far, each with the value assigned to it last)
\* count  history: the number of add/assign calls whose set had not been
\*        added before
\* last   the last call: its name, its iterable argument (for add/assign:
\*        in the sorted order in which the call walks it), its other
\*        argument (the value, default or mode), what it returned, and for
\*        add/assign what store held for the set before the call
\* gens   the generator objects made by iter / itersupersets / itersubsets
\*        that the program holds, by handle
\* adding the call of _add / _assign that an add / assign in progress is
\*        to make next, empty when none is in progress
VARIABLES kind, trie, store, count, last, gens, adding

vars == <<kind, trie, store, count, last, gens, adding>>

\* store holds nothing for the set
Absent == "absent"

Call(op, arg, opt, result, old) ==
  [op |-> op, arg |-> arg, opt |-> opt, result |-> result, old |-> old]

Init ==
  /\ kind \in {"SetTrie", "SetTrieMap"}
  /\ trie = EmptyTrie
  /\ store = [s \in {} |-> None]
  /\ count = 0
  /\ last = Call("init", <<>>, None, None, None)
  /\ gens = [h \in {} |-> None]
  /\ adding = <<>>

\* The history after a call that adds the set of a's items with value v.
Record(a, v) ==
  /\ store' = [s \in DOMAIN store \cup {set(a)} |->
                 IF s = set(a) THEN v ELSE store[s]]
  /\ count' = IF set(a) \in DOMAIN store THEN count ELSE count + 1

Old(a) == IF set(a) \in DOMAIN store THEN store[set(a)] ELSE Absent

\* A run is any sequence of add/assign calls followed by one query call,
\* whose result stays in last: Building holds until the query is made.
Building == last.op \in {"init", "add", "assign"}

\* No more than MaxSets distinct sets are added.
MayAdd(a) ==
  /\ Building
  /\ set(a) \in DOMAIN store \/ Cardinality(DOMAIN store) < MaxSets

\* A call that returns result and leaves the set it was asked about added.
M_Query(op, a, opt, result) ==
  /\ Building
  /\ last' = Call(op, a, opt, result, None)
  /\ trie' = SetTrie__add(trie, root, sorted(a))
  /\ UNCHANGED <<kind, store, count, gens, adding>>

\* A call that returns result and changes nothing.
Query(op, a, opt, result) ==
  /\ Building
  /\ last' = Call(op, a, opt, result, None)
  /\ UNCHANGED <<kind, trie, store, count, gens, adding>>

Add(a) ==
  /\ kind = "SetTrie"
  /\ MayAdd(a)
  /\ trie' = SetTrie_add(trie, a)
  /\ Record(a, None)
  /\ last' = Call("add", sorted(a), None, None, Old(a))
  /\ UNCHANGED <<kind, gens, adding>>

Contains(a) ==
  /\ kind = "SetTrie"
  /\ Query("contains", a, None, SetTrie_contains(trie, a))

HasSuperset(a) ==
  /\ kind = "SetTrie"
  /\ Query("hassuperset", a, None, SetTrie_hassuperset(trie, a))

Supersets(a) ==
  /\ kind = "SetTrie"
  /\ Query("supersets", a, None, SetTrie_supersets(trie, a))

HasSubset(a) ==
  /\ kind = "SetTrie"
  /\ Query("hassubset", a, None, SetTrie_hassubset(trie, a))

Subsets(a) ==
  /\ kind = "SetTrie"
  /\ Query("subsets", a, None, SetTrie_subsets(trie, a))

AsList ==
  /\ kind = "SetTrie"
  /\ Query("aslist", <<>>, None, SetTrie_aslist(trie))

Assign(a, v) ==
  /\ kind = "SetTrieMap"
  /\ MayAdd(a)
  /\ trie' = SetTrieMap_assign(trie, a, v)
  /\ Record(a, v)
  /\ last' = Call("assign", sorted(a), v, None, Old(a))
  /\ UNCHANGED <<kind, gens, adding>>

MapContains(a) ==
  /\ kind = "SetTrieMap"
  /\ Query("contains", a, None, SetTrieMap_contains(trie, a))

Get(a, default) ==
  /\ kind = "SetTrieMap"
  /\ Query("get", a, default, SetTrieMap_get(trie, a, default))

MapHasSuperset(a) ==
  /\ kind = "SetTrieMap"
  /\ Query("hassuperset", a, None, SetTrieMap_hassuperset(trie, a))

MapSupersets(a, mode) ==
  /\ kind = "SetTrieMap"
  /\ Query("supersets", a, mode, SetTrieMap_supersets(trie, a, mode))

MapHasSubset(a) ==
  /\ kind = "SetTrieMap"
  /\ Query("hassubset", a, None, SetTrieMap_hassubset(trie, a))

MapSubsets(a, mode) ==
  /\ kind = "SetTrieMap"
  /\ Query("subsets", a, mode, SetTrieMap_subsets(trie, a, mode))

MapIter(mode) ==
  /\ kind = "SetTrieMap"
  /\ Query("iter", <<>>, mode, SetTrieMap_iter(trie, mode))

\* The calls with the iterable a.
Calls(a) ==
  \/ Add(a)
  \/ Contains(a)
  \/ HasSuperset(a)
  \/ Supersets(a)
  \/ HasSubset(a)
  \/ Subsets(a)
  \/ \E v \in Values : Assign(a, v)
  \/ MapContains(a)
  \/ \E d \in Defaults : Get(a, d)
  \/ MapHasSuperset(a)
  \/ \E mode \in Modes : MapSupersets(a, mode)
  \/ MapHasSubset(a)
  \/ \E mode \in Modes : MapSubsets(a, mode)

\* Every call is made with a set.
Next ==
  \/ \E a \in SetArgs : Calls(a)
  \/ AsList
  \/ \E mode \in Modes : MapIter(mode)

Spec == Init /\ [][Next]_vars

\* Calls are made with any iterable, repeated items included.
NextIter ==
  \/ \E a \in IterArgs : Calls(a)
  \/ AsList
  \/ \E mode \in Modes : MapIter(mode)

SpecIter == Init /\ [][NextIter]_vars

\* ------------------------------------------------- brute-force reference
\* The sets added (key sets assigned) so far.
Added == DOMAIN store

\* The elements of a set as an ascending sequence.
RECURSIVE AscSeq(_)
AscSeq(S) ==
  IF S = {} THEN <<>>
  ELSE LET m == CHOOSE x \in S : \A y \in S : x <= y
       IN <<m>> \o AscSeq(S \ {m})

\* a comes before b in lexicographic order, a proper prefix coming first.
RECURSIVE LexLess(_, _)
LexLess(a, b) ==
  IF a = <<>> THEN b # <<>>
  ELSE IF b = <<>> THEN FALSE
  ELSE IF Head(a) # Head(b) THEN Head(a) < Head(b)
  ELSE LexLess(Tail(a), Tail(b))

\* The sets of l are in strictly ascending lexicographic order.
Ascending(l) ==
  \A i, j \in 1..Len(l) : i < j => LexLess(AscSeq(l[i]), AscSeq(l[j]))

\* The sequence l lists exactly the sets of S, each once.
ListsOnce(l, S) ==
  /\ {l[i] : i \in 1..Len(l)} = S
  /\ Len(l) = Cardinality(S)

\* The whole container in its iteration order, as (set, value) pairs; the
\* value is None in a SetTrie.
Pairs ==
  IF kind = "SetTrie"
  THEN LET l == SetTrie_aslist(trie) IN [i \in 1..Len(l) |-> <<l[i], None>>]
  ELSE SetTrieMap_iter(trie, None)

\* The stored sets in the container's iteration order.
Keys == [i \in 1..Len(Pairs) |-> Pairs[i][1]]

\* What a call yields of each pair: a SetTrie yields the sets.
ModeOf(call) == IF kind = "SetTrie" THEN "keys" ELSE call.opt

Project(pairs, mode) ==
  [i \in 1..Len(pairs) |->
     IF mode = "keys" THEN pairs[i][1]
     ELSE IF mode = "values" THEN pairs[i][2]
     ELSE pairs[i]]

\* Iterate the whole container and keep the pairs whose set satisfies P.
Filtered(P(_), mode) ==
  Project(SelectSeq(Pairs, LAMBDA p : P(p[1])), mode)

\* The sets in a result list, known unless only the values were asked for.
HasKeys(mode) == mode # "values"
KeysIn(result, mode) ==
  [i \in 1..Len(result) |->
     IF mode = "keys" THEN result[i] ELSE result[i][1]]

\* contains() of the container that was constructed
ContainsOf(a) ==
  IF kind = "SetTrie" THEN SetTrie_contains(trie, a)
  ELSE SetTrieMap_contains(trie, a)

\* ------------------------------------------------------------ the claims

\* C1: hassuperset(Q) is True iff at least one stored set is a superset of
\* Q by brute-force comparison, for every stored collection, the empty one
\* included, where hassuperset of the empty set is False.
C1_HasSupersetIffStored ==
  last.op = "hassuperset" =>
    (last.result <=> \E S \in Added : set(last.arg) \subseteq S)

\* C2: subsets(Q) equals the list obtained by iterating the whole container
\* in its order and keeping exactly the stored sets that are subsets of Q.
C2_SubsetsEqualFiltered ==
  last.op = "subsets" =>
    last.result =
      Filtered(LAMBDA S : S \subseteq set(last.arg), ModeOf(last))

\* C3: supersets(Q) equals the list obtained by iterating the whole container
\* in its ascending order and keeping exactly the stored sets that are
\* supersets of Q: each stored superset once, nothing else, in ascending
\* lexicographic order.
C3_SupersetsEqualFiltered ==
  last.op = "supersets" =>
    LET mode == ModeOf(last)
        Q == set(last.arg)
    IN /\ last.result = Filtered(LAMBDA S : Q \subseteq S, mode)
       /\ HasKeys(mode) =>
            /\ ListsOnce(KeysIn(last.result, mode),
                         {S \in Added : Q \subseteq S})
            /\ Ascending(KeysIn(last.result, mode))
       /\ Len(last.result) = Cardinality({S \in Added : Q \subseteq S})

\* A supersets call with a non-empty search set that returns two or more of
\* the stored sets, but not all of them.
C3_Witness ==
  /\ last.op = "supersets"
  /\ last.arg # <<>>
  /\ Len(last.result) >= 2
  /\ Len(last.result) < Cardinality(Added)

\* C4: hassubset(Q) is True iff at least one stored set is a subset of Q: a
\* stored empty set makes it True for every Q, and without a stored subset
\* it is False, also for the empty Q.
C4_HasSubsetIffStored ==
  last.op = "hassubset" =>
    (last.result <=> \E S \in Added : S \subseteq set(last.arg))

\* A hassubset call that returns True for a stored set reached by skipping
\* an element of the search set, the empty set not being stored.
C4_Witness ==
  /\ last.op = "hassubset"
  /\ last.result = TRUE
  /\ {} \notin Added
  /\ \A S \in Added : S \subseteq set(last.arg) => 1 \notin S
  /\ 1 \in set(last.arg)

\* A hassubset call that returns False although sets are stored.
C4_WitnessFalse ==
  /\ last.op = "hassubset"
  /\ last.result = FALSE
  /\ Added # {}

\* C5: after any sequence of add (assign) calls, contains(S) is True iff S
\* is one of the sets added so far: also after later adds, not for a mere
\* prefix or extension of stored sets, and for the empty set iff it was
\* added.
C5_ContainsIffAdded ==
  /\ Building => \A a \in SetArgs : ContainsOf(a) <=> set(a) \in Added
  /\ last.op = "contains" => (last.result <=> set(last.arg) \in Added)

\* A new set has just been added; a set added earlier is still contained,
\* and a proper prefix of a stored set that was not added is not.
C5_Witness ==
  /\ last.op \in {"add", "assign"}
  /\ last.old = Absent
  /\ \E S \in Added \ {set(last.arg)} : ContainsOf(AscSeq(S))
  /\ \E S \in Added :
       \E n \in 1..(Cardinality(S) - 1) :
         LET pre == SubSeq(AscSeq(S), 1, n)
         IN set(pre) \notin Added /\ ~ContainsOf(pre)

\* C6: add is idempotent on a SetTrie: each distinct set that was added is
\* listed exactly once by aslist(), however often it was added, so the
\* number of sets listed is the number of adds made while the set was not
\* yet contained.
C6_AddIdempotent ==
  kind = "SetTrie" =>
    /\ Building =>
         /\ ListsOnce(SetTrie_aslist(trie), Added)
         /\ Len(SetTrie_aslist(trie)) = count
    /\ last.op = "aslist" =>
         /\ ListsOnce(last.result, Added)
         /\ Len(last.result) = count

\* A set that was already there has just been added again, to a SetTrie that
\* holds two sets or more.
C6_Witness ==
  /\ kind = "SetTrie"
  /\ last.op = "add"
  /\ last.old # Absent
  /\ count >= 2

\* C7: aslist() / iteration over a SetTrie and keys() / items() of a
\* SetTrieMap return the stored sets ordered by their ascending-sorted
\* element sequences compared lexicographically, a proper prefix first,
\* whatever the insertion order was.
C7_LexicographicOrder ==
  /\ Building => ListsOnce(Keys, Added) /\ Ascending(Keys)
  /\ last.op \in {"aslist", "iter"} /\ HasKeys(ModeOf(last)) =>
       /\ ListsOnce(KeysIn(last.result, ModeOf(last)), Added)
       /\ Ascending(KeysIn(last.result, ModeOf(last)))

\* The set added last is listed first of three, and a stored set is a proper
\* prefix of another one.
C7_Witness ==
  /\ last.op \in {"add", "assign"}
  /\ last.old = Absent
  /\ Len(Keys) = 3
  /\ Keys[1] = set(last.arg)
  /\ \E S, T \in Added : S # T /\ S # {} /\ S \subseteq T

\* What a call in the given mode yields for the stored empty set.
YieldOfEmpty(mode) ==
  IF mode = "keys" THEN <<{}>>
  ELSE IF mode = "values" THEN <<store[{}]>>
  ELSE << <<{}, store[{}]>> >>

\* C8: supersets of the empty set returns every stored set, the same list
\* as aslist(); subsets of the empty set returns the list of the empty set
\* alone if the empty set was added, and the empty list otherwise.
C8_EmptyQuery ==
  /\ last.op = "supersets" /\ last.arg = <<>> =>
       /\ last.result = Project(Pairs, ModeOf(last))
       /\ Len(last.result) = Cardinality(Added)
       /\ HasKeys(ModeOf(last)) =>
            ListsOnce(KeysIn(last.result, ModeOf(last)), Added)
  /\ last.op = "subsets" /\ last.arg = <<>> =>
       last.result =
         IF {} \in Added THEN YieldOfEmpty(ModeOf(last)) ELSE <<>>

\* subsets of the empty set was called where the empty set is stored among
\* other sets.
C8_Witness ==
  /\ last.op = "subsets"
  /\ last.arg = <<>>
  /\ {} \in Added
  /\ Cardinality(Added) >= 2
  /\ Len(last.result) = 1

\* supersets of the empty set was called on a container of several sets.
C8_WitnessSupersets ==
  /\ last.op = "supersets"
  /\ last.arg = <<>>
  /\ Len(last.result) >= 2

\* What the query op of the constructed container returns for the iterable
\* a and the other argument opt.
Answer(op, a, opt) ==
  IF kind = "SetTrie"
  THEN CASE op = "contains" -> SetTrie_contains(trie, a)
         [] op = "hassuperset" -> SetTrie_hassuperset(trie, a)
         [] op = "supersets" -> SetTrie_supersets(trie, a)
         [] op = "hassubset" -> SetTrie_hassubset(trie, a)
         [] op = "subsets" -> SetTrie_subsets(trie, a)
         [] op = "aslist" -> SetTrie_aslist(trie)
  ELSE CASE op = "contains" -> SetTrieMap_contains(trie, a)
         [] op = "get" -> SetTrieMap_get(trie, a, opt)
         [] op = "hassuperset" -> SetTrieMap_hassuperset(trie, a)
         [] op = "supersets" -> SetTrieMap_supersets(trie, a, opt)
         [] op = "hassubset" -> SetTrieMap_hassubset(trie, a)
         [] op = "subsets" -> SetTrieMap_subsets(trie, a, opt)
         [] op = "iter" -> SetTrieMap_iter(trie, opt)

\* C9: an iterable with repeated elements passed to add, contains,
\* hassuperset, hassubset, supersets or subsets behaves exactly as the set of
\* its distinct elements: after add([1, 1]) the set {1} is contained and the
\* path has one node for 1, and hassuperset([1, 1]) is True whenever {1} is
\* stored.
C9_RepeatedElementsAsSet ==
  /\ last.op \in {"add", "assign"} =>
       /\ ContainsOf(AscSeq(set(last.arg)))
       /\ \A n \in DOMAIN trie : Cardinality(set(n)) = Len(n)
  /\ last.op \in {"contains", "hassuperset", "hassubset", "supersets",
                  "subsets"} =>
       last.result = Answer(last.op, AscSeq(set(last.arg)), last.opt)

\* C10: SetTrieMap overwrite is last-write-wins: after assign(K, v1) and
\* later assign(K, v2), get(K) returns v2, K appears exactly once in keys()
\* and items(), paired with v2 only, and the values of all other keys are
\* unchanged.
C10_LastWriteWins ==
  kind = "SetTrieMap" /\ Building =>
    LET items == SetTrieMap_items(trie)
    IN /\ ListsOnce(SetTrieMap_keys(trie), Added)
       /\ Len(items) = Cardinality(Added)
       /\ \A i \in 1..Len(items) :
            items[i][1] \in Added /\ items[i][2] = store[items[i][1]]
       /\ \A K \in Added :
            \A d \in Defaults : SetTrieMap_get(trie, AscSeq(K), d) = store[K]

\* A key that held another value has just been assigned a new value, in a
\* map with other keys.
C10_Witness ==
  /\ last.op = "assign"
  /\ last.old \in Values \ {last.opt}
  /\ SetTrieMap_get(trie, last.arg, None) = last.opt
  /\ Cardinality(Added) >= 2


\* C11: get(K, default) returns the value assigned last to K when K was
\* assigned, and the default of the caller (None when omitted) when K was
\* never assigned: also when K is a proper prefix or an extension of stored
\* keys, shares no element with any key, or is the empty set.
C11_GetOrDefault ==
  /\ last.op = "get" =>
       last.result = IF set(last.arg) \in Added THEN store[set(last.arg)]
                     ELSE last.opt
  /\ kind = "SetTrieMap" /\ Building =>
       \A a \in SetArgs : \A d \in Defaults :
         SetTrieMap_get(trie, a, d) =
           IF set(a) \in Added THEN store[set(a)] ELSE d

\* get was called with a default for a key that was never assigned and is a
\* non-empty proper prefix of an assigned key.
C11_Witness ==
  /\ last.op = "get"
  /\ last.opt = "dflt"
  /\ last.result = "dflt"
  /\ last.arg # <<>>
  /\ set(last.arg) \notin Added
  /\ \E K \in Added :
       /\ Cardinality(K) > Len(last.arg)
       /\ SubSeq(AscSeq(K), 1, Len(last.arg)) = sorted(last.arg)

\* C12: the mode of a SetTrieMap iterator changes only what is yielded for a
\* match: with 'keys' the key sets and with 'values' the values of the pairs
\* yielded with mode None, as many and in the same order; any other mode
\* behaves as None.
C12_ModeProjects ==
  kind = "SetTrieMap" /\ last.op \in {"supersets", "subsets", "iter"} =>
    /\ last.result = Project(Answer(last.op, last.arg, None), last.opt)
    /\ Answer(last.op, last.arg, "pairs") = Answer(last.op, last.arg, None)

\* A SetTrieMap enumeration in mode 'values' that yields two values or more.
C12_Witness ==
  /\ kind = "SetTrieMap"
  /\ last.op \in {"supersets", "subsets"}
  /\ last.opt = "values"
  /\ Len(last.result) >= 2


\* The trie that the stored collection determines: a node for every prefix
\* of every stored set taken in ascending order, the children of a node in
\* ascending key order, a node terminal iff its path is a stored set.
Prefixes(s) == {SubSeq(s, 1, n) : n \in 0..Len(s)}
CanonNodes == UNION {Prefixes(AscSeq(K)) : K \in Added}
CanonChildren(n) ==
  LET keys == {m[Len(m)] :
                 m \in {x \in CanonNodes :
                          Len(x) = Len(n) + 1 /\ SubSeq(x, 1, Len(n)) = n}}
      asc == AscSeq(keys)
  IN [i \in 1..Len(asc) |-> Append(n, asc[i])]
Canon ==
  [n \in CanonNodes \cup {root} |->
     [data |-> IF n = root THEN NoData ELSE n[Len(n)],
      children |-> CanonChildren(n),
      flag_last |-> set(n) \in Added,
      value |-> IF set(n) \in Added THEN store[set(n)] ELSE None]]

\* C13: the trie depends on the collection of sets added and on nothing
\* else: whatever the order of the add calls, their repetitions and the
\* order in which the elements of each set are supplied, the nodes, the
\* order of the children and the terminal flags are those of the one trie
\* of the collection, and so is the result of every query.
C13_OrderIndependent == Building => trie = Canon

\* Three sets are stored, and the set added last, of two elements or more,
\* comes in lexicographic order before a set added earlier.
C13_Witness ==
  /\ last.op = "add"
  /\ last.old = Absent
  /\ Len(last.arg) >= 2
  /\ Cardinality(Added) = 3
  /\ \E K \in Added : LexLess(last.arg, AscSeq(K))

\* Every stored set is a subset of the search set of the last call.
Universal == \A K \in Added : K \subseteq set(last.arg)

\* C18: subsets(U) of a search set U that contains every element of every
\* stored set, and possibly further elements, is the full iteration
\* aslist(): the same sets (for a SetTrieMap the same pairs) in the same
\* order.
C18_UniversalSubsets ==
  last.op = "subsets" /\ Universal =>
    last.result = Project(Pairs, ModeOf(last))

\* subsets was called with a search set that holds an element of no stored
\* set, and returned two stored sets or more.
C18_Witness ==
  /\ last.op = "subsets"
  /\ Universal
  /\ set(last.arg) # UNION Added
  /\ Len(last.result) >= 2
  /\ last.result = Project(Pairs, ModeOf(last))

\* C20: every set that subsets(Q) yields was added and is a subset of Q
\* (for a SetTrieMap it comes with the value assigned to it), and no stored
\* set is yielded twice.
C20_SubsetsSound ==
  last.op = "subsets" =>
    LET Q == set(last.arg)
        mode == ModeOf(last)
        keys == KeysIn(last.result, mode)
    IN /\ Len(last.result) <= Cardinality({K \in Added : K \subseteq Q})
       /\ HasKeys(mode) =>
            /\ \A i \in 1..Len(keys) : keys[i] \in Added /\ keys[i] \subseteq Q
            /\ \A i, j \in 1..Len(keys) : keys[i] = keys[j] => i = j
       /\ kind = "SetTrieMap" /\ mode = None =>
            \A i \in 1..Len(keys) : last.result[i][2] = store[keys[i]]

\* subsets yielded two sets while a stored set that is no subset of the
\* search set was left out.
C20_Witness ==
  /\ last.op = "subsets"
  /\ Len(last.result) >= 2
  /\ \E K \in Added : ~(K \subseteq set(last.arg))


\* --------------------------------------------- the generators, step by step
\* A generator object is the stack of the frames of _iter / _itersupersets /
\* _itersubsets that are suspended in it, the path list that the call
\* created and that its frames share, what it has yielded so far (out) and
\* how often it has raised StopIteration (stops).  A frame is at its start
\* (pc "enter"), in its loop over node.children before the c-th child (pc
\* "for"), or in the while loop of _itersubsets for the c-th child (pc
\* "while").

\* No more than MaxStops requests are made of an exhausted generator.
MaxStops == 2
\* A container is constructed from MaxGenSets sets at most.
MaxGenSets == 2
\* The generator objects that a program holds.
Handles == {"g", "h"}

Frame(node, idx) == [node |-> node, idx |-> idx, c |-> 0, pc |-> "enter"]
Top(stack) == stack[Len(stack)]
Rest(stack) == SubSeq(stack, 1, Len(stack) - 1)
Conf(stack, path, yield) == [stack |-> stack, path |-> path, yield |-> yield]

\* path.pop() unless the node is the root
PathPop(t, node, path) ==
  IF t[node].data # NoData THEN SubSeq(path, 1, Len(path) - 1) ELSE path

\* The frame returns: the path is popped and the caller's frame resumes.
Return(t, stack, path) ==
  Conf(Rest(stack), PathPop(t, Top(stack).node, path), <<>>)

\* yield from the generator of the child, with the frame left at pc and c.
YieldFrom(stack, path, pc, c, idx, child, childidx) ==
  Conf(Rest(stack)
         \o <<[Top(stack) EXCEPT !.pc = pc, !.c = c, !.idx = idx],
              Frame(child, childidx)>>,
       path, <<>>)

\* What a frame yields at a terminal node: a SetTrie generator the set of
\* the path, a SetTrieMap generator what its mode says.
GenYield(t, node, path, mode) ==
  IF kind = "SetTrie" THEN <<set(path)>> ELSE MapYield(t, node, path, mode)

\* One step of the frame on top of the stack in _iter.
IterStep(t, stack, path, mode) ==
  LET f == Top(stack)
      children == t[f.node].children
  IN IF f.pc = "enter"
     THEN LET path1 == PathAppend(t, f.node, path)
          IN Conf(Rest(stack) \o <<[f EXCEPT !.pc = "for", !.c = 1]>>, path1,
                  IF t[f.node].flag_last THEN GenYield(t, f.node, path1, mode) ELSE <<>>)
     ELSE IF f.c <= Len(children)
     THEN YieldFrom(stack, path, "for", f.c + 1, f.idx, children[f.c], f.idx)
     ELSE Return(t, stack, path)

\* One step of the frame on top of the stack in _itersupersets.
ItersupersetsStep(t, stack, path, setarr, mode) ==
  LET f == Top(stack)
      children == t[f.node].children
      idx == f.idx
  IN IF f.pc = "enter"
     THEN LET path1 == PathAppend(t, f.node, path)
          IN Conf(Rest(stack) \o <<[f EXCEPT !.pc = "for", !.c = 1]>>, path1,
                  IF t[f.node].flag_last /\ idx > Len(setarr) - 1
                  THEN GenYield(t, f.node, path1, mode) ELSE <<>>)
     ELSE IF f.c > Len(children) THEN Return(t, stack, path)
     ELSE
       LET child == children[f.c]
       IN IF idx <= Len(setarr) - 1
          THEN IF t[child].data > setarr[idx + 1]
               THEN Return(t, stack, path)
               ELSE IF t[child].data = setarr[idx + 1]
               THEN YieldFrom(stack, path, "for", f.c + 1, idx, child, idx + 1)
               ELSE YieldFrom(stack, path, "for", f.c + 1, idx, child, idx)
          ELSE YieldFrom(stack, path, "for", f.c + 1, idx, child, idx)

\* One step of the frame on top of the stack in _itersubsets.
ItersubsetsStep(t, stack, path, setarr, mode) ==
  LET f == Top(stack)
      children == t[f.node].children
      idx == f.idx
  IN IF f.pc = "enter"
     THEN LET path1 == PathAppend(t, f.node, path)
          IN Conf(Rest(stack) \o <<[f EXCEPT !.pc = "for", !.c = 1]>>, path1,
                  IF t[f.node].flag_last THEN GenYield(t, f.node, path1, mode) ELSE <<>>)
     ELSE IF f.c > Len(children) THEN Return(t, stack, path)
     ELSE
       LET child == children[f.c]
       IN IF f.pc = "for"
          THEN IF idx > Len(setarr) - 1 THEN Return(t, stack, path)
               ELSE IF t[child].data = setarr[idx + 1]
               THEN YieldFrom(stack, path, "for", f.c + 1, idx, child, idx + 1)
               ELSE Conf(Rest(stack)
                           \o <<[f EXCEPT !.pc = "while", !.idx = idx + 1]>>,
                         path, <<>>)
          ELSE IF idx < Len(setarr) /\ t[child].data >= setarr[idx + 1]
          THEN IF t[child].data = setarr[idx + 1]
               THEN YieldFrom(stack, path, "for", f.c + 1, idx, child, idx)
               ELSE Conf(Rest(stack) \o <<[f EXCEPT !.idx = idx + 1]>>,
                         path, <<>>)
          ELSE Conf(Rest(stack) \o <<[f EXCEPT !.pc = "for", !.c = f.c + 1]>>,
                    path, <<>>)

\* One step of a generator of the container: op is the method that made it.
GenStep(t, op, mode, setarr, stack, path) ==
  CASE op = "iter" -> IterStep(t, stack, path, mode)
    [] op = "supersets" -> ItersupersetsStep(t, stack, path, setarr, mode)
    [] op = "subsets" -> ItersubsetsStep(t, stack, path, setarr, mode)

\* next(generator): the generator runs until a frame yields or the last
\* frame has returned; a generator without frames raises StopIteration.
RECURSIVE GenNext(_, _, _, _, _, _)
\* A generator that starts again at the root once its last frame returned.
M_GenNext(t, op, mode, setarr, stack, path) ==
  IF stack = <<>> THEN GenStep(t, op, mode, setarr, <<Frame(root, 0)>>, <<>>)
  ELSE LET s == GenStep(t, op, mode, setarr, stack, path)
       IN IF s.yield # <<>> THEN s
          ELSE GenNext(t, op, mode, setarr, s.stack, s.path)

GenNext(t, op, mode, setarr, stack, path) ==
  IF stack = <<>> THEN Conf(stack, path, <<>>)
  ELSE LET s == GenStep(t, op, mode, setarr, stack, path)
       IN IF s.yield # <<>> THEN s
          ELSE GenNext(t, op, mode, setarr, s.stack, s.path)

\* The path list of every generator is the list of the generator of g.
M_PathOf(h) == gens["g"].path

\* The path list of the generator h: each call makes its own, path = [].
PathOf(h) == gens[h].path

\* The sets of lexicographically ascending order in a sequence.
RECURSIVE LexSeq(_)
LexSeq(S) ==
  IF S = {} THEN <<>>
  ELSE LET m == CHOOSE x \in S :
                  \A y \in S \ {x} : LexLess(AscSeq(x), AscSeq(y))
       IN <<AscSeq(m)>> \o LexSeq(S \ {m})

\* SetTrie(iterable): every set of the iterable is added.
RECURSIVE SetTrie_init(_)
SetTrie_init(iterable) ==
  IF iterable = <<>> THEN EmptyTrie
  ELSE SetTrie_add(SetTrie_init(SubSeq(iterable, 1, Len(iterable) - 1)),
                   iterable[Len(iterable)])

\* SetTrieMap(iterable): every (key set, value) pair of the iterable is
\* assigned.
RECURSIVE SetTrieMap_init(_)
SetTrieMap_init(iterable) ==
  IF iterable = <<>> THEN EmptyTrie
  ELSE SetTrieMap_assign(
         SetTrieMap_init(SubSeq(iterable, 1, Len(iterable) - 1)),
         iterable[Len(iterable)][1], iterable[Len(iterable)][2])

\* The collections of sets that a container is constructed from.
Collections ==
  {S \in SUBSET (SUBSET Elem) : Cardinality(S) <= MaxGenSets}

\* A container constructed from an iterable of sets, or of pairs of a key
\* set and a value: the first value is v1, the others are v2.
InitGen ==
  /\ kind \in {"SetTrie", "SetTrieMap"}
  /\ \E S \in Collections :
       LET keys == LexSeq(S)
       IN IF kind = "SetTrie"
          THEN /\ trie = SetTrie_init(keys)
               /\ store = [s \in S |-> None]
               /\ count = Cardinality(S)
          ELSE LET items == [i \in 1..Len(keys) |->
                               <<keys[i], IF i = 1 THEN "v1" ELSE "v2">>]
               IN /\ trie = SetTrieMap_init(items)
                  /\ store = [s \in S |->
                                IF AscSeq(s) = keys[1] THEN "v1" ELSE "v2"]
                  /\ count = Cardinality(S)
  /\ last = Call("init", <<>>, None, None, None)
  /\ gens = [h \in {} |-> None]
  /\ adding = <<>>

\* Only generators are made once one has been made.
Enumerating ==
  last.op \in {"init", "__iter__", "itersupersets", "itersubsets"}

\* A call that returns a new generator object, which the program binds to
\* its first free handle.
NewGen(name, op, a, mode) ==
  /\ Enumerating
  /\ Handles \ DOMAIN gens # {}
  /\ LET h == IF "g" \notin DOMAIN gens THEN "g" ELSE "h"
     IN gens' = [x \in DOMAIN gens \cup {h} |->
                   IF x = h
                   THEN [op |-> op, arg |-> sorted(a), mode |-> mode,
                         stack |-> <<Frame(root, 0)>>, path |-> <<>>,
                         out |-> <<>>, stops |-> 0]
                   ELSE gens[x]]
  /\ last' = Call(name, sorted(a), mode, None, None)
  /\ UNCHANGED <<kind, trie, store, count, adding>>

Iter ==
  /\ kind = "SetTrie"
  /\ NewGen("__iter__", "iter", <<>>, None)

Itersupersets(a) ==
  /\ kind = "SetTrie"
  /\ NewGen("itersupersets", "supersets", a, None)

Itersubsets(a) ==
  /\ kind = "SetTrie"
  /\ NewGen("itersubsets", "subsets", a, None)

MapIterGen(mode) ==
  /\ kind = "SetTrieMap"
  /\ NewGen("__iter__", "iter", <<>>, mode)

MapItersupersets(a, mode) ==
  /\ kind = "SetTrieMap"
  /\ NewGen("itersupersets", "supersets", a, mode)

MapItersubsets(a, mode) ==
  /\ kind = "SetTrieMap"
  /\ NewGen("itersubsets", "subsets", a, mode)

\* next(h) of a generator object: it yields a value or raises StopIteration.
GenNextCall(h) ==
  /\ h \in DOMAIN gens
  /\ gens[h].stops < MaxStops
  /\ LET g == gens[h]
         r == GenNext(trie, g.op, g.mode, g.arg, g.stack, PathOf(h))
     IN gens' = [gens EXCEPT ![h] =
                   [g EXCEPT !.stack = r.stack, !.path = r.path,
                             !.out = @ \o r.yield,
                             !.stops = IF r.yield = <<>> THEN @ + 1 ELSE @]]
  /\ UNCHANGED <<kind, trie, store, count, last, adding>>

\* _printtree(node, level, ...): the lines printed, each as its indentation,
\* the node's data and what trails it: the terminal flag in a SetTrie, the
\* value of a terminal node in a SetTrieMap.
TabSize == 2
RECURSIVE printtree(_, _, _)
RECURSIVE printtree_for(_, _, _, _)
printtree(t, node, level) ==
  << <<level * TabSize, t[node].data,
       IF kind = "SetTrie"
       THEN (IF t[node].flag_last THEN "#" ELSE "")
       ELSE (IF t[node].flag_last THEN t[node].value ELSE "")>> >>
  \o printtree_for(t, t[node].children, 1, level)

printtree_for(t, children, c, level) ==
  IF c > Len(children) THEN <<>>
  ELSE printtree(t, children[c], level + 1)
       \o printtree_for(t, children, c + 1, level)

PrintTree ==
  /\ kind \in {"SetTrie", "SetTrieMap"}
  /\ Query("printtree", <<>>, None, printtree(trie, root, 0))

\* The calls that return what they found, with the iterable a.
Queries(a) ==
  \/ Contains(a)
  \/ HasSuperset(a)
  \/ Supersets(a)
  \/ HasSubset(a)
  \/ Subsets(a)
  \/ MapContains(a)
  \/ \E d \in Defaults : Get(a, d)
  \/ MapHasSuperset(a)
  \/ \E mode \in Modes : MapSupersets(a, mode)
  \/ MapHasSubset(a)
  \/ \E mode \in Modes : MapSubsets(a, mode)

\* A constructed container is queried once, or enumerated by generators
\* that are advanced in any interleaving.
NextGen ==
  \/ \E a \in SetArgs : Queries(a)
  \/ AsList
  \/ \E mode \in Modes : MapIter(mode)
  \/ PrintTree
  \/ Iter
  \/ \E a \in SetArgs : Itersupersets(a) \/ Itersubsets(a)
  \/ \E mode \in Modes : MapIterGen(mode)
  \/ \E a \in SetArgs : \E mode \in Modes :
       MapItersupersets(a, mode) \/ MapItersubsets(a, mode)
  \/ \E h \in Handles : GenNextCall(h)

SpecGen == InitGen /\ [][NextGen]_vars


\* C14: no query changes the trie.  Every step of a constructed container
\* that is only queried (contains, get, hassuperset, hassubset, supersets,
\* subsets, aslist, iter, printtree, the making of a generator and every
\* request for its next element, whether it yields or raises StopIteration)
\* leaves every node, its children, its terminal flag and its value as they
\* were, and creates and removes no node.
C14_QueriesReadOnly == [][trie' = trie]_vars

\* A generator over a container that is not empty has yielded and is
\* suspended, not consumed to its end.
C14_Witness ==
  /\ Added # {}
  /\ \E h \in DOMAIN gens :
       /\ gens[h].stops = 0
       /\ gens[h].out # <<>>
       /\ Len(gens[h].stack) >= 2

\* The number of terminal nodes of the trie.
Terminals == Cardinality({n \in DOMAIN trie : trie[n].flag_last})

\* C16: an enumeration yields no more elements than the trie has terminal
\* nodes; once it has raised StopIteration, every further request raises
\* StopIteration again and nothing more is yielded; and over an empty
\* container the first request raises StopIteration.
C16_Exhaustion ==
  /\ [](\A h \in DOMAIN gens :
          /\ Len(gens[h].out) <= Terminals
          /\ Added = {} => gens[h].out = <<>>)
  /\ [][\A h \in DOMAIN gens :
          /\ gens[h].stops > 0 =>
               /\ gens'[h].out = gens[h].out
               /\ gens'[h].stack = <<>>
               /\ gens'[h].stops >= gens[h].stops
          /\ Added = {} /\ gens'[h] # gens[h] => gens'[h].stops > 0]_vars

\* A generator that has yielded two elements was asked again after it had
\* raised StopIteration.
C16_Witness ==
  \E h \in DOMAIN gens :
    /\ gens[h].stops = MaxStops
    /\ Len(gens[h].out) >= 2

\* a is an initial segment of b
IsPrefix(a, b) == Len(a) <= Len(b) /\ SubSeq(b, 1, Len(a)) = a

\* What the call that made the generator g returns as a list.
FullOf(g) ==
  IF kind = "SetTrie"
  THEN CASE g.op = "iter" -> SetTrie_iter(trie)
         [] g.op = "supersets" -> SetTrie_itersupersets(trie, g.arg)
         [] g.op = "subsets" -> SetTrie_itersubsets(trie, g.arg)
  ELSE CASE g.op = "iter" -> SetTrieMap_iter(trie, g.mode)
         [] g.op = "supersets" -> SetTrieMap_itersupersets(trie, g.arg, g.mode)
         [] g.op = "subsets" -> SetTrieMap_itersubsets(trie, g.arg, g.mode)

\* C17: what a generator yields is decided by the trie and by the arguments
\* of the call that made it: in every interleaving of the requests made of
\* two generators, each has yielded an initial segment of the sequence of
\* its call, and the whole sequence when it is exhausted, so two calls with
\* the same arguments yield the same sequence.
C17_FreshTraversal ==
  \A h \in DOMAIN gens :
    /\ IsPrefix(gens[h].out, FullOf(gens[h]))
    /\ gens[h].stops > 0 => gens[h].out = FullOf(gens[h])

\* Two generators of the same call: one was left after its first element,
\* in the middle of the trie, the other yielded two elements or more and is
\* exhausted.
C17_Witness ==
  /\ DOMAIN gens = Handles
  /\ gens["g"].op = gens["h"].op
  /\ gens["g"].arg = gens["h"].arg
  /\ gens["g"].mode = gens["h"].mode
  /\ gens["g"].stops = 0
  /\ Len(gens["g"].out) = 1
  /\ gens["g"].path # <<>>
  /\ gens["h"].stops > 0
  /\ Len(gens["h"].out) >= 2


\* ------------------------------------------- elements that cannot be ordered
\* Other is an element that comes after every element of Elem and cannot
\* be ordered against the greatest of them, as the tuple (1, 'a') among the
\* tuples (0, 0) and (1, 2): x == y is False and x < y raises TypeError when
\* x and y are the two.
Other == MaxElem + 1
ElemE == Elem \cup {Other}
Orderable(x, y) == {x, y} # {MaxElem, Other}

\* The iterables over sets of these elements.
ErrArgs == {s \in SeqsUpTo(ElemE, MaxLen) : Cardinality(set(s)) = Len(s)}

TypeError == "TypeError"
Raise == [err |-> TRUE, val |-> 0]
Ok(v) == [err |-> FALSE, val |-> v]

\* sorted(iterable): TypeError when two items are compared that cannot be
\* ordered, which sorting cannot avoid as they come next to each other.
sortedE(s) ==
  IF \E i, j \in 1..Len(s) : ~Orderable(s[i], s[j]) THEN Raise
  ELSE Ok(sorted(s))

\* bisect_left / bisect_right of data in the children l[lo+1..hi]: the
\* number of children that come before the place of data, or TypeError
\* from the comparison with a child that data cannot be ordered against.
RECURSIVE Bisect(_, _, _, _, _, _)
Bisect(t, l, data, lo, hi, right) ==
  IF lo >= hi THEN Ok(lo)
  ELSE LET mid == (lo + hi) \div 2
           x == t[l[mid + 1]].data
       IN IF ~Orderable(x, data) THEN Raise
          ELSE IF (IF right THEN ~(data < x) ELSE x < data)
          THEN Bisect(t, l, data, mid + 1, hi, right)
          ELSE Bisect(t, l, data, lo, mid, right)

\* SortedList.index(Node(data)): ValueError (val 0) at once when there are
\* no children; else the greatest child is compared first, then the place
\* is bisected and the child there compared for equality.
SortedListIndexE(t, l, data) ==
  IF l = <<>> THEN Ok(0)
  ELSE IF ~Orderable(t[l[Len(l)]].data, data) THEN Raise
  ELSE LET b == Bisect(t, l, data, 0, Len(l), FALSE)
       IN IF b.err THEN Raise
          ELSE IF b.val < Len(l) /\ t[l[b.val + 1]].data = data
          THEN Ok(b.val + 1)
          ELSE Ok(0)

\* SortedList.add(node): no comparison when there are no children; else
\* the greatest child is compared first, then the place is bisected.
SortedListAddE(t, l, id, data) ==
  IF l = <<>> THEN Ok(<<id>>)
  ELSE IF ~Orderable(t[l[Len(l)]].data, data) THEN Raise
  ELSE LET b == Bisect(t, l, data, 0, Len(l), TRUE)
       IN IF b.err THEN Raise
          ELSE Ok(SubSeq(l, 1, b.val) \o <<id>>
                       \o SubSeq(l, b.val + 1, Len(l)))

\* SetTrie._add(node, it) where comparisons may raise: the trie as the call
\* leaves it, and whether it raised TypeError.
RECURSIVE SetTrie__addE(_, _, _)
\* SetTrie._add that registers the new child before it looks for an
\* existing one.
M_SetTrie__addE(t, node, it) ==
  IF it = <<>> THEN [trie |-> [t EXCEPT ![node].flag_last = TRUE], err |-> FALSE]
  ELSE
    LET data == Head(it)
        nextnode == Append(node, data)
        t1 == [n \in DOMAIN t \cup {nextnode} |->
                 IF n \in DOMAIN t THEN t[n] ELSE Node(data)]
        t2 == [t1 EXCEPT ![node].children = Append(@, nextnode)]
        c == SortedListIndexE(t, t[node].children, data)
    IN IF c.err THEN [trie |-> t2, err |-> TRUE]
       ELSE IF c.val # 0
       THEN SetTrie__addE(t, t[node].children[c.val], Tail(it))
       ELSE SetTrie__addE(t2, nextnode, Tail(it))

SetTrie__addE(t, node, it) ==
  IF it = <<>> THEN [trie |-> [t EXCEPT ![node].flag_last = TRUE], err |-> FALSE]
  ELSE
    LET data == Head(it)
        c == SortedListIndexE(t, t[node].children, data)
    IN IF c.err THEN [trie |-> t, err |-> TRUE]
       ELSE IF c.val # 0
       THEN SetTrie__addE(t, t[node].children[c.val], Tail(it))
       ELSE
         LET nextnode == Append(node, data)
             t1 == [n \in DOMAIN t \cup {nextnode} |->
                      IF n = nextnode THEN Node(data) ELSE t[n]]
             l == SortedListAddE(t1, t1[node].children, nextnode, data)
         IN IF l.err THEN [trie |-> t, err |-> TRUE]
            ELSE SetTrie__addE([t1 EXCEPT ![node].children = l.val],
                               nextnode, Tail(it))

\* SetTrieMap._assign(node, it, val) where comparisons may raise.
RECURSIVE SetTrieMap__assignE(_, _, _, _)
SetTrieMap__assignE(t, node, it, val) ==
  IF it = <<>>
  THEN [trie |-> [t EXCEPT ![node].flag_last = TRUE, ![node].value = val],
        err |-> FALSE]
  ELSE
    LET data == Head(it)
        c == SortedListIndexE(t, t[node].children, data)
    IN IF c.err THEN [trie |-> t, err |-> TRUE]
       ELSE IF c.val # 0
       THEN SetTrieMap__assignE(t, t[node].children[c.val], Tail(it), val)
       ELSE
         LET nextnode == Append(node, data)
             t1 == [n \in DOMAIN t \cup {nextnode} |->
                      IF n = nextnode THEN Node(data) ELSE t[n]]
             l == SortedListAddE(t1, t1[node].children, nextnode, data)
         IN IF l.err THEN [trie |-> t, err |-> TRUE]
            ELSE SetTrieMap__assignE([t1 EXCEPT ![node].children = l.val],
                                     nextnode, Tail(it), val)

\* SetTrie.add(aset) / SetTrieMap.assign(akey, avalue): sorted() raises
\* before _add / _assign is entered.
SetTrie_addE(t, aset) ==
  LET s == sortedE(aset)
  IN IF s.err THEN [trie |-> t, err |-> TRUE]
     ELSE SetTrie__addE(t, root, s.val)

SetTrieMap_assignE(t, akey, avalue) ==
  LET s == sortedE(akey)
  IN IF s.err THEN [trie |-> t, err |-> TRUE]
     ELSE SetTrieMap__assignE(t, root, s.val, avalue)

\* A call of add / assign that returns r: the trie is as the call left it;
\* a call that raised is recorded with the iterable as it was given and
\* adds nothing to the history.  A run ends with the call that raised.
Mutate(op, a, v, r) ==
  /\ MayAdd(a)
  /\ last.result # TypeError
  /\ trie' = r.trie
  /\ IF r.err
     THEN /\ last' = Call(op, a, v, TypeError, Old(a))
          /\ UNCHANGED <<store, count>>
     ELSE /\ last' = Call(op, sorted(a), v, None, Old(a))
          /\ Record(a, v)
  /\ UNCHANGED <<kind, gens, adding>>

AddE(a) ==
  /\ kind = "SetTrie"
  /\ Mutate("add", a, None, SetTrie_addE(trie, a))

AssignE(a, v) ==
  /\ kind = "SetTrieMap"
  /\ Mutate("assign", a, v, SetTrieMap_assignE(trie, a, v))

NextErr == \E a \in ErrArgs : AddE(a) \/ \E v \in Values : AssignE(a, v)

SpecErr == Init /\ [][NextErr]_vars

\* C15: an add or assign that raises TypeError, from sorted() or from the
\* lookup among the children of a node at any depth, leaves the trie as it
\* was before the call: no node created, no terminal flag set, no value
\* changed; and an argument with two elements that cannot be ordered
\* against each other always raises.
C15_FailedAddUnchanged ==
  [][/\ {MaxElem, Other} \subseteq set(last'.arg) => last'.result = TypeError
     /\ last'.result = TypeError => trie' = trie /\ store' = store]_vars

\* A call whose two elements can be ordered failed below the root, on the
\* comparison of its second element with a key of the trie.
C15_Witness ==
  /\ last.result = TypeError
  /\ Len(last.arg) = 2
  /\ ~({MaxElem, Other} \subseteq set(last.arg))
  /\ Cardinality(Added) >= 2


\* ------------------------------------------------ add, one level at a time
\* adding is empty, or holds the call of _add / _assign that is to run next:
\* its node, what its iterator has left, the value to assign and the sorted
\* argument of the add / assign in progress.

\* add(aset) / assign(akey, avalue) calls _add / _assign at the root.
Enter(a, v) ==
  /\ MayAdd(a)
  /\ adding = <<>>
  /\ adding' = <<[node |-> root, it |-> sorted(a), val |-> v,
                 arg |-> sorted(a)]>>
  /\ UNCHANGED <<kind, trie, store, count, last, gens>>

AddCall(a) ==
  /\ kind = "SetTrie"
  /\ Enter(a, None)

AssignCall(a, v) ==
  /\ kind = "SetTrieMap"
  /\ Enter(a, v)

\* One call of _add / _assign with an element left: the child with the
\* element is looked up, or a new node is created and added to the
\* children; the call then recurses at that node.
AddLevel ==
  /\ adding # <<>>
  /\ adding[1].it # <<>>
  /\ LET node == adding[1].node
         data == Head(adding[1].it)
         c == SortedListIndex(trie, trie[node].children, data)
         nextnode == Append(node, data)
         t1 == [n \in DOMAIN trie \cup {nextnode} |->
                  IF n = nextnode THEN Node(data) ELSE trie[n]]
     IN IF c # 0
        THEN /\ adding' = [adding EXCEPT ![1].node = trie[node].children[c],
                                         ![1].it = Tail(@)]
             /\ trie' = trie
        ELSE /\ adding' = [adding EXCEPT ![1].node = nextnode,
                                         ![1].it = Tail(@)]
             /\ trie' = [t1 EXCEPT ![node].children =
                           SortedListAdd(t1, @, nextnode, data)]
  /\ UNCHANGED <<kind, store, count, last, gens>>

\* The call of _add / _assign with nothing left: StopIteration, the node
\* becomes terminal (and gets the value), and add / assign returns.
AddLast ==
  /\ adding # <<>>
  /\ adding[1].it = <<>>
  /\ trie' = IF kind = "SetTrie"
             THEN [trie EXCEPT ![adding[1].node].flag_last = TRUE]
             ELSE [trie EXCEPT ![adding[1].node].flag_last = TRUE,
                               ![adding[1].node].value = adding[1].val]
  /\ Record(adding[1].arg, adding[1].val)
  /\ last' = Call(IF kind = "SetTrie" THEN "add" ELSE "assign",
                  adding[1].arg, adding[1].val, None, Old(adding[1].arg))
  /\ adding' = <<>>
  /\ UNCHANGED <<kind, gens>>

NextStep ==
  \/ \E a \in SetArgs : AddCall(a) \/ \E v \in Values : AssignCall(a, v)
  \/ AddLevel
  \/ AddLast

SpecStep == Init /\ [][NextStep]_vars

\* C19: in every state between two steps of add / assign, also between the
\* insertion of a node and the rest of the add that inserts it, the children
\* of every node have pairwise distinct keys in strictly ascending order,
\* and the key of every child is greater than the key of its parent.
C19_ChildRegistry ==
  \A n \in DOMAIN trie :
    LET l == trie[n].children
    IN /\ \A i, j \in 1..Len(l) : i < j => trie[l[i]].data < trie[l[j]].data
       /\ \A i \in 1..Len(l) : n # root => trie[l[i]].data > trie[n].data

\* An add in progress has just inserted a node, not yet terminal and
\* without children, before an older sibling, and has elements left.
C19_Witness ==
  /\ adding # <<>>
  /\ adding[1].it # <<>>
  /\ adding[1].node # root
  /\ ~trie[adding[1].node].flag_last
  /\ trie[adding[1].node].children = <<>>
  /\ LET parent == SubSeq(adding[1].node, 1, Len(adding[1].node) - 1)
     IN /\ Len(trie[parent].children) >= 2
        /\ trie[parent].children[1] = adding[1].node


\* The node n of the trie t is terminal or has a terminal node among the
\* nodes below it.
RECURSIVE Live(_, _)
Live(t, n) ==
  \/ t[n].flag_last
  \/ \E i \in 1..Len(t[n].children) : Live(t, t[n].children[i])

\* _hassuperset at the node n with the search set consumed
Consumed(n) ==
  IF kind = "SetTrie" THEN SetTrie__hassuperset(trie, n, <<>>, 0)
  ELSE SetTrieMap__hassuperset(trie, n, <<>>, 0)

\* C21: after every add / assign, every node but the root is terminal or
\* has a terminal descendant, so that the True which _hassuperset answers
\* at such a node once the search set is consumed is right; and the root is
\* terminal or has a terminal descendant iff a set has been added.
C21_NoDeadBranches ==
  Building =>
    /\ \A n \in DOMAIN trie \ {root} : Live(trie, n) /\ Consumed(n)
    /\ Live(trie, root) <=> Added # {}

\* Two sets or more are stored, one of them below a node that is not the
\* root and not terminal itself.
C21_Witness ==
  /\ Building
  /\ Cardinality(Added) >= 2
  /\ \E n \in DOMAIN trie \ {root} :
       /\ ~trie[n].flag_last
       /\ trie[n].children # <<>>


\* C22: on a container to which a set has been added, hassuperset(Q) is
\* True iff supersets(Q) is not the empty list, for every search set Q, the
\* empty set included.
C22_HasSupersetIffSupersets ==
  Added # {} =>
    /\ last.op = "hassuperset" =>
         (last.result <=> Answer("supersets", last.arg, None) # <<>>)
    /\ last.op = "supersets" =>
         (last.result # <<>> <=> Answer("hassuperset", last.arg, None))

\* hassuperset answered True for a search set that is no stored set but a
\* proper subset of one.
C22_Witness ==
  /\ last.op = "hassuperset"
  /\ last.result
  /\ last.arg # <<>>
  /\ set(last.arg) \notin Added
  /\ Answer("supersets", last.arg, None) # <<>>

====
